---- MODULE Spec2Model ----
(***************************************************************************)
(* Model of the document generator sample:                                 *)
(*   - plugins/repo_file_plugin.py : RepoFilePlugin (three file-system     *)
(*     operations under a root directory), over a POSIX file system;       *)
(*   - main.py : the main() coroutine driving an AgentGroupChat.           *)
(* Two specifications share the variables: Spec (the plugin) and MainSpec  *)
(* (the main coroutine).                                                   *)
(***************************************************************************)
EXTENDS Integers, Sequences, FiniteSets, TLC

VARIABLES
    root_dir,       \* RepoFilePlugin.root_dir : a path [abs, comps]
    fs,             \* the file system: node path -> [kind, data]
    denied,         \* nodes whose permission bits are all cleared (mode 000)
    call,           \* the plugin call that has just returned: [op, path, name]
    outcome,        \* what that call did: [kind, value, exc, by]
    touched,        \* the nodes that call opened for reading or listed
    pc,             \* main(): position of the coroutine
    history,        \* group_chat: the chat history, oldest message first
    is_complete,    \* group_chat.is_complete (set by the termination strategy)
    iterations,     \* group_chat.invoke(): turns taken so far
    pending,        \* the response invoke() has yielded and main has not printed
    produced,       \* names of the responses invoke() has yielded, in order
    printed,        \* standard output of main(), line by line
    content_history,\* main(): the list built from get_chat_messages
    next_of,        \* CustomSelectionStrategy: last speaker -> next speaker
    uncaught        \* the exception that left main(), "" if none

pluginVars == <<root_dir, fs, denied, call, outcome, touched>>
mainVars == <<pc, history, is_complete, iterations, pending, produced, printed,
              content_history, next_of, uncaught>>
vars == <<pluginVars, mainVars>>

\* ------------------------------------------------------------------ bounds
\* Longest file content, in bytes.
MaxLen == 2
\* maximum_iterations of the termination strategy.
MaxIterations == 4

\* ------------------------------------------------------------------ paths
\* A path is [abs |-> BOOLEAN, comps |-> sequence of components]; "/" is
\* [abs |-> TRUE, comps |-> <<>>].
Path(abs, comps) == [abs |-> abs, comps |-> comps]

\* os.path.join(a, b): an absolute b discards a.
Join(a, b) == IF b.abs THEN b ELSE Path(a.abs, a.comps \o b.comps)

\* os.path.dirname(p): everything before the last component.
DirName(p) ==
    IF p.comps = <<>> THEN p ELSE Path(p.abs, SubSeq(p.comps, 1, Len(p.comps) - 1))

\* os.path.normpath, component by component: "." is dropped, ".." removes the
\* component before it (at the top of an absolute path it is dropped, at the top
\* of a relative path it stays).
RECURSIVE NormComps(_, _, _)
NormComps(abs, done, rest) ==
    IF rest = <<>> THEN done
    ELSE LET c == Head(rest) IN
         IF c = "." THEN NormComps(abs, done, Tail(rest))
         ELSE IF c = ".."
              THEN IF done # <<>> /\ done[Len(done)] # ".."
                   THEN NormComps(abs, SubSeq(done, 1, Len(done) - 1), Tail(rest))
                   ELSE IF abs THEN NormComps(abs, done, Tail(rest))
                        ELSE NormComps(abs, Append(done, c), Tail(rest))
              ELSE NormComps(abs, Append(done, c), Tail(rest))

NormPath(p) == Path(p.abs, NormComps(p.abs, <<>>, p.comps))

\* A variant of abspath that forgets the working directory.
AbsPathNoCwd(cwd, p) == NormPath(p)

\* os.path.abspath(p) in working directory cwd: normpath(join(cwd, p)).
AbsPath(cwd, p) == NormPath(Join(cwd, p))

\* RepoFilePlugin.__init__: abspath(join(dirname(__file__), "..")).
InitRootDir(cwd, file) == AbsPath(cwd, Join(DirName(file), Path(FALSE, <<"..">>)))

\* The repository root every start of the program resolves to.
RepoRoot == Path(TRUE, <<"repo">>)

\* The ways the interpreter can name the plugin module: <<cwd, __file__>>.
Launches ==
    { <<Path(TRUE, <<"repo">>), Path(TRUE, <<"repo", "plugins", "repo_file_plugin.py">>)>>,
      <<Path(TRUE, <<"repo">>), Path(FALSE, <<"plugins", "repo_file_plugin.py">>)>>,
      <<Path(TRUE, <<"repo">>), Path(FALSE, <<".", "plugins", "repo_file_plugin.py">>)>>,
      <<Path(TRUE, <<>>), Path(FALSE, <<"repo", "plugins", "repo_file_plugin.py">>)>>,
      <<Path(TRUE, <<"repo", "plugins">>), Path(FALSE, <<"repo_file_plugin.py">>)>> }

\* ------------------------------------------------------------ file system
\* Nodes are named by their absolute path from "/". The tree holds the
\* repository (/repo, with /repo/plugins/repo_file_plugin.py in it), a file
\* /a outside the repository, and the entries "a" that may or may not exist in
\* /repo, /repo/a and /repo/plugins.
Slash == <<>>
RepoDir == <<"repo">>
PluginsDir == <<"repo", "plugins">>
PluginFile == <<"repo", "plugins", "repo_file_plugin.py">>
Outside == <<"a">>
RepoA == <<"repo", "a">>
RepoAA == <<"repo", "a", "a">>
PluginsA == <<"repo", "plugins", "a">>

NodePaths == {Slash, RepoDir, PluginsDir, PluginFile, Outside, RepoA, RepoAA, PluginsA}
OptionalNodes == {RepoA, RepoAA, PluginsA}
\* The files another process rewrites while the program runs.
WritableNodes == {RepoA, RepoAA}
\* The nodes whose permissions may be cleared.
DeniableNodes == {RepoA, RepoAA, PluginsA, PluginsDir}

Bytes == {"x", "CR", "LF", "xFF"}

RECURSIVE SeqsUpTo(_, _)
SeqsUpTo(S, n) ==
    IF n = 0 THEN {<<>>}
    ELSE LET shorter == SeqsUpTo(S, n - 1) IN
         shorter \cup {Append(s, b) : s \in {t \in shorter : Len(t) = n - 1}, b \in S}

Contents == SeqsUpTo(Bytes, MaxLen)

NoNode == [kind |-> "none", data |-> <<>>]
DirNode == [kind |-> "dir", data |-> <<>>]
FileNode(data) == [kind |-> "file", data |-> data]

Parent(p) == IF p = <<>> THEN p ELSE SubSeq(p, 1, Len(p) - 1)
BaseName(p) == p[Len(p)]
Exists(p) == p \in NodePaths /\ fs[p].kind # "none"
IsDir(p) == p \in NodePaths /\ fs[p].kind = "dir"
IsFile(p) == p \in NodePaths /\ fs[p].kind = "file"

\* The entries of directory d.
Children(d) == {p \in NodePaths : p # <<>> /\ Parent(p) = d /\ fs[p].kind # "none"}

\* The content a file has when the program starts.
InitialData(p) ==
    IF p = PluginFile THEN <<"x", "LF">>
    ELSE IF p = Outside THEN <<"x">>
    ELSE IF p = PluginsA THEN <<"LF">>
    ELSE <<>>

\* The trees the program may start in: the fixed part, and each optional
\* entry absent, a file or a directory.
InitialTrees ==
    {f \in [NodePaths -> {"none", "dir", "file"}] :
        /\ f[Slash] = "dir" /\ f[RepoDir] = "dir" /\ f[PluginsDir] = "dir"
        /\ f[PluginFile] = "file" /\ f[Outside] = "file"
        /\ \A p \in NodePaths \ {Slash} : f[p] # "none" => f[Parent(p)] = "dir"}

InitialFs(f) ==
    [p \in NodePaths |->
        IF f[p] = "file" THEN FileNode(InitialData(p))
        ELSE IF f[p] = "dir" THEN DirNode ELSE NoNode]

\* Path resolution as the kernel does it, from node cur through the components
\* rest: [err |-> "" | errno, node |-> the node reached].
RECURSIVE Resolve(_, _)
Resolve(cur, rest) ==
    IF rest = <<>> THEN [err |-> "", node |-> cur]
    ELSE IF ~IsDir(cur) THEN [err |-> "ENOTDIR", node |-> cur]
    ELSE IF cur \in denied THEN [err |-> "EACCES", node |-> cur]
    ELSE LET c == Head(rest) IN
         IF c = "." THEN Resolve(cur, Tail(rest))
         ELSE IF c = ".." THEN Resolve(Parent(cur), Tail(rest))
         ELSE IF ~Exists(Append(cur, c)) THEN [err |-> "ENOENT", node |-> cur]
         ELSE Resolve(Append(cur, c), Tail(rest))

\* The exception class Python raises for an errno.
ExcOf(errno) ==
    CASE errno = "ENOENT" -> "FileNotFoundError"
      [] errno = "ENOTDIR" -> "NotADirectoryError"
      [] errno = "EISDIR" -> "IsADirectoryError"
      [] errno = "EACCES" -> "PermissionError"

\* open(p) for reading: the node opened, or the errno.
OsOpen(p) ==
    LET r == Resolve(Slash, p.comps) IN
    IF r.err # "" THEN r
    ELSE IF r.node \in denied THEN [err |-> "EACCES", node |-> r.node]
    ELSE IF IsDir(r.node) THEN [err |-> "EISDIR", node |-> r.node]
    ELSE r

\* os.listdir(p) / os.scandir(p): the directory opened, or the errno.
OsOpenDir(p) ==
    LET r == Resolve(Slash, p.comps) IN
    IF r.err # "" THEN r
    ELSE IF ~IsDir(r.node) THEN [err |-> "ENOTDIR", node |-> r.node]
    ELSE IF r.node \in denied THEN [err |-> "EACCES", node |-> r.node]
    ELSE r

\* Universal newlines of a text-mode read: CR LF and a lone CR become LF.
RECURSIVE Translate(_)
Translate(s) ==
    IF s = <<>> THEN <<>>
    ELSE IF Head(s) = "CR"
         THEN IF Len(s) >= 2 /\ s[2] = "LF"
              THEN <<"LF">> \o Translate(SubSeq(s, 3, Len(s)))
              ELSE <<"LF">> \o Translate(Tail(s))
         ELSE <<Head(s)>> \o Translate(Tail(s))

\* A read that hands the bytes back untranslated.
FileReadBinary(data) == [err |-> FALSE, text |-> data]

\* file.read() of a file opened in text mode with the default (UTF-8)
\* encoding: byte 0xFF does not decode.
FileRead(data) ==
    IF \E i \in 1..Len(data) : data[i] = "xFF"
    THEN [err |-> TRUE, text |-> <<>>]
    ELSE [err |-> FALSE, text |-> Translate(data)]

\* ------------------------------------------------------------- the plugin
NoCall == [op |-> "none", path |-> Path(FALSE, <<>>), name |-> ""]
PathCall(op, path) == [op |-> op, path |-> path, name |-> ""]
NameCall(name) == [op |-> "read_file_by_name", path |-> Path(FALSE, <<>>), name |-> name]

\* What a call did. by: who built the exception ("plugin": one of the plugin's
\* raise statements, "os": the failed system call, "codec": the decoder).
\* walk: the directories os.walk yielded before the call ended.
NoOutcome == [kind |-> "none", value |-> <<>>, exc |-> "", by |-> "", walk |-> <<>>]
Return(v, w) == [kind |-> "return", value |-> v, exc |-> "", by |-> "", walk |-> w]
Raise(e, by, w) == [kind |-> "raise", value |-> <<>>, exc |-> e, by |-> by, walk |-> w]

\* The names of a set of sibling nodes in the order ord gives them.
InOrder(nodes, ord) == SelectSeq(ord, LAMBDA n : \E p \in nodes : BaseName(p) = n)

\* "\n".join(names)
RECURSIVE JoinLines(_)
JoinLines(names) ==
    IF names = <<>> THEN <<>>
    ELSE IF Len(names) = 1 THEN <<names[1]>>
    ELSE <<names[1], "LF">> \o JoinLines(Tail(names))

\* with open(p) as file: return file.read()  -- the outcome and the node opened.
OpenAndRead(p, w) ==
    LET o == OsOpen(p) IN
    IF o.err # "" THEN [out |-> Raise(ExcOf(o.err), "os", w), opened |-> {}]
    ELSE LET t == FileRead(fs[o.node].data) IN
         [out |-> IF t.err THEN Raise("UnicodeDecodeError", "codec", w)
                  ELSE Return(t.text, w),
          opened |-> {o.node}]

\* A variant that converts every OSError into the plugin's not-found error.
ReadFileByPathCatchAll(path) ==
    LET r == OpenAndRead(Join(root_dir, path), <<>>) IN
    IF r.out.by = "os"
    THEN [r EXCEPT !.out = Raise("FileNotFoundError", "plugin", <<>>)]
    ELSE r

\* RepoFilePlugin.read_file_by_path
ReadFileByPath(path) ==
    LET full_path == Join(root_dir, path)
        r == OpenAndRead(full_path, <<>>)
    IN  IF r.out.kind = "raise" /\ r.out.exc = "FileNotFoundError"
        THEN [r EXCEPT !.out = Raise("FileNotFoundError", "plugin", <<>>)]
        ELSE r

\* A variant that lists the directory recursively.
ListDirectoryDeep(path, ord) ==
    LET o == OsOpenDir(Join(root_dir, path)) IN
    IF o.err # "" THEN [out |-> Raise(ExcOf(o.err), "os", <<>>), opened |-> {}]
    ELSE [out |-> Return(JoinLines(InOrder(
                     {p \in NodePaths : Exists(p) /\ Len(p) > Len(o.node)
                                        /\ SubSeq(p, 1, Len(o.node)) = o.node}, ord)), <<>>),
          opened |-> {o.node}]

\* A variant that answers a missing directory with the empty string.
ListDirectoryOrEmpty(path, ord) ==
    LET o == OsOpenDir(Join(root_dir, path)) IN
    IF o.err = "ENOENT" THEN [out |-> Return(<<>>, <<>>), opened |-> {}]
    ELSE IF o.err # "" THEN [out |-> Raise(ExcOf(o.err), "os", <<>>), opened |-> {}]
    ELSE [out |-> Return(JoinLines(InOrder(Children(o.node), ord)), <<>>),
          opened |-> {o.node}]

\* RepoFilePlugin.list_directory; ord is the order os.listdir happens to use.
ListDirectory(path, ord) ==
    LET full_path == Join(root_dir, path)
        o == OsOpenDir(full_path)
    IN  IF o.err = "ENOENT"
        THEN [out |-> Raise("FileNotFoundError", "plugin", <<>>), opened |-> {}]
        ELSE IF o.err # ""
        THEN [out |-> Raise(ExcOf(o.err), "os", <<>>), opened |-> {}]
        ELSE [out |-> Return(JoinLines(InOrder(Children(o.node), ord)), <<>>),
              opened |-> {o.node}]

\* os.walk(top), top-down, errors of scandir ignored (onerror is None): the
\* directories it yields, in order. A directory that cannot be listed yields
\* nothing and is not descended into.
RECURSIVE Walk(_, _)
RECURSIVE WalkEach(_, _, _)
Walk(top, ord) ==
    IF OsOpenDir(Path(TRUE, top)).err # "" THEN <<>>
    ELSE <<top>> \o WalkEach(top, InOrder({p \in Children(top) : IsDir(p)}, ord), ord)
WalkEach(top, dirs, ord) ==
    IF dirs = <<>> THEN <<>>
    ELSE Walk(Append(top, Head(dirs)), ord) \o WalkEach(top, Tail(dirs), ord)

\* A variant of the walk that visits the deepest directories first.
WalkBottomUp(top, ord) ==
    LET w == Walk(top, ord) IN [i \in 1..Len(w) |-> w[Len(w) + 1 - i]]

\* The walk read_file_by_name iterates over.
OsWalk(top, ord) == Walk(top, ord)

\* `file_name in files` for the directory d that the walk yielded.
InFiles(file_name, d) == \E p \in Children(d) : IsFile(p) /\ BaseName(p) = file_name

\* RepoFilePlugin.read_file_by_name; ord is the order os.scandir happens to use.
ReadFileByName(file_name, ord) ==
    LET w == OsWalk(root_dir.comps, ord)
        hits == {i \in 1..Len(w) : InFiles(file_name, w[i])}
    IN  IF hits = {}
        THEN [out |-> Raise("FileNotFoundError", "plugin", w), opened |-> {}]
        ELSE LET i == CHOOSE h \in hits : \A k \in hits : h <= k
                 root == w[i]
             IN  OpenAndRead(Path(TRUE, Append(root, file_name)), SubSeq(w, 1, i))

\* ------------------------------------------------------------------ inputs
PathArgs ==
    { Path(FALSE, <<>>), Path(FALSE, <<"a">>), Path(FALSE, <<"a", "a">>),
      Path(FALSE, <<"plugins">>), Path(FALSE, <<"plugins", "a">>),
      Path(FALSE, <<"plugins", "repo_file_plugin.py">>),
      Path(FALSE, <<"b">>), Path(FALSE, <<"a", "..">>), Path(FALSE, <<"a", "b">>),
      Path(FALSE, <<"..">>), Path(FALSE, <<"..", "a">>),
      Path(TRUE, <<"a">>), Path(TRUE, <<"repo", "a">>) }
NameArgs == {"a", "b", "plugins", "repo_file_plugin.py", ".."}

\* The orders in which the system may enumerate directory entries. Every
\* directory of the tree holds at most two entries, one of them named "a", so
\* an enumeration either puts "a" first or puts it last.
Orders == { <<"a", "plugins", "repo", "repo_file_plugin.py">>,
            <<"plugins", "repo", "repo_file_plugin.py", "a">> }

\* ----------------------------------------------------------------- actions
MainIdle ==
    /\ pc = "idle" /\ history = <<>> /\ is_complete = FALSE /\ iterations = 0
    /\ pending = "" /\ produced = <<>> /\ printed = <<>> /\ content_history = <<>>
    /\ next_of = <<>> /\ uncaught = ""

Init ==
    /\ \E l \in Launches : root_dir = InitRootDir(l[1], l[2])
    /\ fs \in {InitialFs(f) : f \in InitialTrees}
    /\ denied \in {{}} \cup {{p} : p \in {q \in DeniableNodes : fs[q].kind # "none"}}
    /\ call = NoCall /\ outcome = NoOutcome /\ touched = {}
    /\ MainIdle

\* A call runs to its end: it returns or raises, and the plugin object and the
\* file system are as they were.
Finish(c, r) ==
    /\ call.op = "none"
    /\ call' = c
    /\ outcome' = r.out
    /\ touched' = r.opened \cup {r.out.walk[i] : i \in 1..Len(r.out.walk)}
    /\ UNCHANGED <<root_dir, fs, denied, mainVars>>

CallReadFileByPath ==
    \E path \in PathArgs : Finish(PathCall("read_file_by_path", path), ReadFileByPath(path))

CallReadFileByName ==
    \E file_name \in NameArgs, ord \in Orders :
        Finish(NameCall(file_name), ReadFileByName(file_name, ord))

CallListDirectory ==
    \E path \in PathArgs, ord \in Orders :
        Finish(PathCall("list_directory", path), ListDirectory(path, ord))

\* Another process rewrites a file between two calls of the plugin.
WriteFile ==
    \E p \in WritableNodes, data \in Contents :
        /\ call.op = "none"
        /\ fs[p].kind = "file" /\ fs[p].data # data
        /\ fs' = [fs EXCEPT ![p] = FileNode(data)]
        /\ UNCHANGED <<root_dir, denied, call, outcome, touched, mainVars>>

\* The kernel function's caller takes the value or the exception; the plugin
\* is ready for the next call.
Returned ==
    /\ call.op # "none"
    /\ call' = NoCall /\ outcome' = NoOutcome /\ touched' = {}
    /\ UNCHANGED <<root_dir, fs, denied, mainVars>>

Next ==
    \/ CallReadFileByPath
    \/ CallReadFileByName
    \/ CallListDirectory
    \/ WriteFile
    \/ Returned

Spec == Init /\ [][Next]_vars

\* ---------------------------------------------------------------- main()
\* agents = [ContentCreationAgent(), UserAgent(), CodeValidationAgent()];
\* each agent's name is its class name.
Agents == <<"ContentCreationAgent", "UserAgent", "CodeValidationAgent">>
AgentSet == {Agents[i] : i \in 1..Len(Agents)}

Message(role, name, content) == [role |-> role, name |-> name, content |-> content]

\* ChatMessageContent(role=AuthorRole.USER, content=TASK.strip()): no author name.
TaskMessage == Message("user", "", <<"task", 0>>)

\* The text of the response an agent gives in turn n.
ResponseText(n) == <<"response", n>>

\* CustomSelectionStrategy: a fixed mapping from the last speaker ("" when only
\* the task has been said) to the next speaker.
SelectionStrategies == [AgentSet \cup {""} -> AgentSet]
SelectNext == next_of[history[Len(history)].name]

\* CustomTerminationStrategy.should_terminate: the model's yes or no.
TerminationAnswers == BOOLEAN

Line(kind, text) == [kind |-> kind, text |-> text]
RespondedLine(name) == Line("responded", name)
FinalHeader == Line("header", "Final content:")

Reverse(seq) == [i \in 1..Len(seq) |-> seq[Len(seq) + 1 - i]]

\* group_chat.get_chat_messages(agent=agents[0]): the history, newest first.
GetChatMessages == Reverse(history)

\* A variant that keeps every message, whoever wrote it.
ContentHistoryUnfiltered == GetChatMessages

\* The loop building content_history: the messages whose name is agents[0].name.
ContentHistory == SelectSeq(GetChatMessages, LAMBDA m : m.name = Agents[1])

PluginIdle ==
    /\ root_dir = RepoRoot
    /\ fs = [p \in NodePaths |->
                IF p \in {Slash, RepoDir, PluginsDir} THEN DirNode
                ELSE IF p = PluginFile THEN FileNode(InitialData(p)) ELSE NoNode]
    /\ denied = {} /\ call = NoCall /\ outcome = NoOutcome /\ touched = {}

MainInit ==
    /\ PluginIdle
    /\ pc = "start" /\ history = <<>> /\ is_complete = FALSE /\ iterations = 0
    /\ pending = "" /\ produced = <<>> /\ printed = <<>> /\ content_history = <<>>
    /\ next_of \in SelectionStrategies /\ uncaught = ""

\* await group_chat.add_chat_message(...)
AddChatMessage ==
    /\ pc = "start"
    /\ history' = Append(history, TaskMessage)
    /\ pc' = "invoke"
    /\ UNCHANGED <<pluginVars, is_complete, iterations, pending, produced, printed,
                   content_history, next_of, uncaught>>

\* group_chat.invoke() takes a turn: the selected agent answers, the answer
\* joins the history, the termination strategy is asked, the answer is yielded.
InvokeYields ==
    /\ pc = "invoke" /\ pending = "" /\ ~is_complete /\ iterations < MaxIterations
    /\ LET agent == SelectNext IN
        /\ history' = Append(history, Message("assistant", agent, ResponseText(iterations + 1)))
        /\ produced' = Append(produced, agent)
        /\ pending' = agent
    /\ iterations' = iterations + 1
    /\ is_complete' \in TerminationAnswers
    /\ UNCHANGED <<pluginVars, pc, printed, content_history, next_of, uncaught>>

\* The body of `async for response in group_chat.invoke()`.
PrintResponse ==
    /\ pc = "invoke" /\ pending # ""
    /\ printed' = Append(printed, RespondedLine(pending))
    /\ pending' = ""
    /\ UNCHANGED <<pluginVars, pc, history, is_complete, iterations, produced,
                   content_history, next_of, uncaught>>

\* A variant in which the loop is left with a response still unprinted.
InvokeEndsEarly ==
    /\ pc = "invoke" /\ (is_complete \/ iterations = MaxIterations)
    /\ pc' = "collect" /\ pending' = ""
    /\ UNCHANGED <<pluginVars, history, is_complete, iterations, produced, printed,
                   content_history, next_of, uncaught>>

\* group_chat.invoke() is exhausted: the chat is complete or out of turns.
InvokeEnds ==
    /\ pc = "invoke" /\ pending = "" /\ (is_complete \/ iterations = MaxIterations)
    /\ pc' = "collect"
    /\ UNCHANGED <<pluginVars, history, is_complete, iterations, pending, produced,
                   printed, content_history, next_of, uncaught>>

\* A model call fails during a turn: nothing in main() catches it.
InvokeRaises ==
    /\ pc = "invoke" /\ pending = "" /\ ~is_complete /\ iterations < MaxIterations
    /\ pc' = "crashed" /\ uncaught' = "AgentChatException"
    /\ UNCHANGED <<pluginVars, history, is_complete, iterations, pending, produced,
                   printed, content_history, next_of>>

\* content_history is filled from get_chat_messages(agent=agents[0]).
CollectContentHistory ==
    /\ pc = "collect"
    /\ content_history' = ContentHistory
    /\ pc' = "print_header"
    /\ UNCHANGED <<pluginVars, history, is_complete, iterations, pending, produced,
                   printed, next_of, uncaught>>

\* print("Final content:")
PrintFinalHeader ==
    /\ pc = "print_header"
    /\ printed' = Append(printed, FinalHeader)
    /\ pc' = "print_content"
    /\ UNCHANGED <<pluginVars, history, is_complete, iterations, pending, produced,
                   content_history, next_of, uncaught>>

\* print(content_history[0].content): IndexError on an empty list.
PrintFinalContent ==
    /\ pc = "print_content"
    /\ IF content_history = <<>>
       THEN pc' = "crashed" /\ uncaught' = "IndexError" /\ printed' = printed
       ELSE /\ printed' = Append(printed, Line("content", content_history[1].content))
            /\ pc' = "done" /\ uncaught' = uncaught
    /\ UNCHANGED <<pluginVars, history, is_complete, iterations, pending, produced,
                   content_history, next_of>>

MainNext ==
    \/ AddChatMessage
    \/ InvokeYields
    \/ PrintResponse
    \/ InvokeEnds
    \/ InvokeRaises
    \/ CollectContentHistory
    \/ PrintFinalHeader
    \/ PrintFinalContent

MainSpec == MainInit /\ [][MainNext]_vars

\* ------------------------------------------------- properties of the plugin
\* The node the call's path argument names, as the kernel resolves it.
FullPath == Join(root_dir, call.path)
Target == Resolve(Slash, FullPath.comps)

\* Node n lies inside the plugin's root directory (the root itself included).
UnderRoot(n) ==
    /\ Len(n) >= Len(root_dir.comps)
    /\ SubSeq(n, 1, Len(root_dir.comps)) = root_dir.comps

Decodable(data) == \A i \in 1..Len(data) : data[i] # "xFF"

\* The call's relative path names an existing file under the root that the
\* process may read.
NamesReadableFile ==
    /\ call.op = "read_file_by_path" /\ ~call.path.abs
    /\ Target.err = "" /\ IsFile(Target.node) /\ UnderRoot(Target.node)
    /\ Target.node \notin denied

\* C1 as stated: read_file_by_path of a relative path naming an existing
\* readable file under the root returns exactly that file's bytes, as they are
\* at the time of the call.
C1_ExactBytes ==
    NamesReadableFile =>
        outcome.kind = "return" /\ outcome.value = fs[Target.node].data

\* C1, amended: read_file_by_path of a relative path naming an existing readable
\* file under the root whose bytes decode returns the file's current content
\* with each CR LF pair and each lone CR replaced by LF and nothing else
\* changed, whatever was called or written before; when the bytes do not
\* decode it raises UnicodeDecodeError and returns nothing.
C1_TextOfCurrentContent ==
    NamesReadableFile =>
        IF Decodable(fs[Target.node].data)
        THEN /\ outcome.kind = "return"
             /\ outcome.value = Translate(fs[Target.node].data)
             /\ touched = {Target.node}
        ELSE outcome.kind = "raise" /\ outcome.exc = "UnicodeDecodeError"

\* A file rewritten since the program started is read back, CR LF as LF.
C1_Witness ==
    /\ NamesReadableFile
    /\ fs[Target.node].data = <<"CR", "LF">>
    /\ outcome.kind = "return" /\ outcome.value = <<"LF">>

\* The call ended in the plugin's own not-found error.
NotFoundRaised ==
    outcome.kind = "raise" /\ outcome.exc = "FileNotFoundError" /\ outcome.by = "plugin"

PathOp == call.op \in {"read_file_by_path", "list_directory"}

\* No directory under the root holds a regular file of the given name.
NoFileNamed(file_name) ==
    ~\E p \in NodePaths : IsFile(p) /\ UnderRoot(Parent(p)) /\ BaseName(p) = file_name

NamesDirectory ==
    /\ call.op = "list_directory" /\ ~call.path.abs
    /\ Target.err = "" /\ IsDir(Target.node) /\ UnderRoot(Target.node)

\* value is the names of the nodes in entries, each once, joined by single LF.
IsJoinOf(value, entries) ==
    LET n == Cardinality(entries) IN
    /\ Len(value) = IF n = 0 THEN 0 ELSE 2 * n - 1
    /\ \A i \in 1..Len(value) : i % 2 = 0 => value[i] = "LF"
    /\ \A e \in entries :
           Cardinality({i \in 1..Len(value) : i % 2 = 1 /\ value[i] = BaseName(e)}) = 1

\* C3 as stated: list_directory of a relative path naming an existing directory
\* under the root returns the names of exactly its immediate entries, each
\* once, joined by single newlines; the empty string for an empty directory.
C3_ListsImmediateEntries ==
    NamesDirectory =>
        outcome.kind = "return" /\ IsJoinOf(outcome.value, Children(Target.node))

\* C3, amended: the same, for a directory the process is allowed to list; a
\* directory it may not list makes the call raise PermissionError.
C3_ListsImmediateEntriesIfAllowed ==
    NamesDirectory =>
        IF Target.node \in denied
        THEN outcome.kind = "raise" /\ outcome.exc = "PermissionError"
        ELSE /\ outcome.kind = "return"
             /\ IsJoinOf(outcome.value, Children(Target.node))
             /\ touched = {Target.node}

\* A directory with two entries, one of them a non-empty directory, is listed.
C3_Witness ==
    /\ NamesDirectory /\ Target.node = RepoDir /\ outcome.kind = "return"
    /\ IsFile(RepoAA) /\ Len(outcome.value) = 3

\* An empty directory is listed as the empty string.
C3_WitnessEmpty ==
    NamesDirectory /\ Children(Target.node) = {} /\ outcome.kind = "return"
        /\ outcome.value = <<>>

\* C4: whatever the argument, an operation opens or lists only nodes inside
\* the plugin's root directory.
C4_ScopedToRoot == \A n \in touched : UnderRoot(n)

\* C5: the root directory is an absolute path from construction on, and no
\* call, returning or raising, changes it.
C5_RootFixed ==
    /\ [](root_dir.abs /\ \A i \in 1..Len(root_dir.comps) :
                              root_dir.comps[i] \notin {".", ".."})
    /\ [][root_dir' = root_dir]_vars

\* A call has failed, and the root is what construction made it.
C5_Witness ==
    /\ call.op # "none" /\ outcome.kind = "raise" /\ root_dir = RepoRoot
    /\ root_dir.abs

\* Directory d is under the root and the walk can list it: neither it nor a
\* directory between the root and it is closed to the process.
Listable(d) ==
    /\ UnderRoot(d) /\ IsDir(d)
    /\ \A k \in Len(root_dir.comps)..Len(d) : SubSeq(d, 1, k) \notin denied

\* The walk reaches directory d and is refused its listing.
Refused(d) == IsDir(d) /\ d \in denied /\ d # root_dir.comps /\ Listable(Parent(d))

\* The directories the walk can list that hold a regular file of the name.
Cands(file_name) == {d \in NodePaths : Listable(d) /\ InFiles(file_name, d)}

IsAncestor(a, d) == Len(a) < Len(d) /\ SubSeq(d, 1, Len(a)) = a

\* The system call the path operation makes fails with an errno other than
\* ENOENT.
OtherOsFailure ==
    LET o == IF call.op = "read_file_by_path" THEN OsOpen(FullPath) ELSE OsOpenDir(FullPath)
    IN  IF PathOp /\ o.err \notin {"", "ENOENT"} THEN o.err ELSE ""

\* The failure reaches the caller as the system's own exception.
Propagated(errno) ==
    outcome.kind = "raise" /\ outcome.exc = ExcOf(errno) /\ outcome.by = "os"

\* The path operations, and the file read_file_by_name opens: a failure other
\* than not-found reaches the caller unchanged.
OpenFailuresPropagate ==
    /\ OtherOsFailure # "" => Propagated(OtherOsFailure)
    /\ (call.op = "read_file_by_name" /\ outcome.walk # <<>> /\ ~NotFoundRaised
          /\ Append(outcome.walk[Len(outcome.walk)], call.name) \in denied)
            => Propagated("EACCES")
    /\ (outcome.kind = "raise" /\ outcome.by = "codec") => outcome.exc = "UnicodeDecodeError"

\* C6 as stated: not-found is the only failure an operation handles; any other
\* failure, a refused directory listing during read_file_by_name included,
\* reaches the caller as that same error, never as not-found and never as a
\* value.
C6_OthersPropagate ==
    /\ OpenFailuresPropagate
    /\ (call.op = "read_file_by_name" /\ Cands(call.name) = {}
          /\ \E d \in NodePaths : Refused(d)) => Propagated("EACCES")

\* C6, amended: a failure other than not-found of read_file_by_path, of
\* list_directory, or of opening and reading the file read_file_by_name found
\* reaches the caller as that same error, never as not-found and never as a
\* value; but a directory whose listing is refused during read_file_by_name's
\* walk is skipped without an error, and the call ends in not-found when no
\* directory it could list holds the file.
C6_OthersPropagateButWalkSkips ==
    /\ OpenFailuresPropagate
    /\ (call.op = "read_file_by_name" /\ Cands(call.name) = {}) => NotFoundRaised

\* list_directory of a path that names a regular file.
C6_Witness ==
    /\ call.op = "list_directory" /\ Target.err = "" /\ IsFile(Target.node)
    /\ Propagated("ENOTDIR")

\* read_file_by_name ends in not-found although the file exists, in a
\* directory whose listing is refused.
C6_WitnessSkipped ==
    /\ call.op = "read_file_by_name" /\ NotFoundRaised
    /\ \E d \in NodePaths : Refused(d) /\ InFiles(call.name, d)

\* What reading the regular file f gives: text, or the failure.
ReadsFile(f) ==
    IF f \in denied THEN Propagated("EACCES") /\ \A n \in touched : ~IsFile(n)
    ELSE /\ \A n \in touched : IsFile(n) => n = f
         /\ f \in touched
         /\ IF Decodable(fs[f].data)
            THEN outcome.kind = "return" /\ outcome.value = Translate(fs[f].data)
            ELSE outcome.kind = "raise" /\ outcome.exc = "UnicodeDecodeError"

\* The walk visited an ancestor before its descendants and stopped at the
\* first directory holding a regular file of the name.
StoppedAtFirst(cands) ==
    LET w == outcome.walk
        d == w[Len(w)]
    IN  /\ w # <<>> /\ d \in cands /\ IsFile(Append(d, call.name))
        /\ \A i \in 1..(Len(w) - 1) : w[i] \notin cands
        /\ \A i, j \in 1..Len(w) : IsAncestor(w[i], w[j]) => i < j
        /\ \A a \in NodePaths : (UnderRoot(a) /\ IsAncestor(a, d)) =>
               \E i \in 1..(Len(w) - 1) : w[i] = a

\* C9 as stated: read_file_by_name returns a value if and only if some
\* directory under the root holds a regular file of the name; a directory of
\* that name is no match; the file read is in the first such directory of the
\* top-down walk, and its content is what is returned.
C9_ValueIffFileExists ==
    call.op = "read_file_by_name" =>
        /\ outcome.kind = "return" <=> ~NoFileNamed(call.name)
        /\ outcome.kind = "return" =>
               /\ StoppedAtFirst({d \in NodePaths : UnderRoot(d) /\ InFiles(call.name, d)})
               /\ ReadsFile(Append(outcome.walk[Len(outcome.walk)], call.name))

\* C9, amended: read_file_by_name walks top-down the directories under the
\* root that it is allowed to list, and stops at the first that holds a regular
\* file of the name (a directory of that name is no match, an ancestor comes
\* before its descendants); it then returns that file's text, or raises the
\* error of opening or decoding it. It ends in not-found if and only if no
\* directory it could list holds such a file.
C9_FirstListableMatch ==
    call.op = "read_file_by_name" =>
        /\ NotFoundRaised <=> Cands(call.name) = {}
        /\ Cands(call.name) # {} =>
               /\ StoppedAtFirst(Cands(call.name))
               /\ ReadsFile(Append(outcome.walk[Len(outcome.walk)], call.name))
        /\ \A i \in 1..Len(outcome.walk) : Listable(outcome.walk[i])

\* Two directories, one the ancestor of the other, hold a file of the name:
\* the ancestor's file is the one returned.
C9_Witness ==
    /\ call.op = "read_file_by_name" /\ call.name = "a"
    /\ IsFile(RepoA) /\ IsFile(PluginsA)
    /\ outcome.kind = "return" /\ outcome.walk = <<RepoDir>>
    /\ outcome.value = <<"x", "LF">> /\ fs[RepoA].data = <<"x", "CR">>

\* -------------------------------------------------- properties of main()
\* The agent names of the "just responded" lines printed so far, in order.
RespondedNames ==
    LET lines == SelectSeq(printed, LAMBDA l : l.kind = "responded")
    IN  [i \in 1..Len(lines) |-> lines[i].text]

HeaderAt(k) == k \in 1..Len(printed) /\ printed[k] = FinalHeader

\* C7: the task message is in the chat before any response is produced; one
\* "just responded" line is printed per response, in the order of the
\* responses; "Final content:" is printed only once the invocation has ended
\* with every response printed, and only the final text follows it.
C7_OutputOrder ==
    /\ (pc # "start" \/ produced # <<>>) => (history # <<>> /\ history[1] = TaskMessage)
    /\ RespondedNames =
         SubSeq(produced, 1, Len(produced) - (IF pending = "" THEN 0 ELSE 1))
    /\ \A k \in 1..Len(printed) : HeaderAt(k) =>
         /\ pc \in {"print_content", "done", "crashed"} /\ pending = ""
         /\ RespondedNames = produced
         /\ \A i \in 1..(k - 1) : printed[i].kind = "responded"
         /\ \A i \in (k + 1)..Len(printed) : printed[i].kind = "content" /\ i = k + 1

\* Three responses were produced and printed in order before the final text.
C7_Witness ==
    /\ pc = "done" /\ Len(produced) = 3 /\ produced[1] # produced[2]
    /\ Len(printed) = 5 /\ HeaderAt(4)
    /\ \A i \in 1..3 : printed[i] = RespondedLine(produced[i])

\* C8: the final text printed is the content of the most recent message of the
\* history written by the content creation agent, never a message of another
\* author.
C8_FinalIsLatestOfFirstAgent ==
    pc = "done" =>
        \E i \in 1..Len(history) :
            /\ history[i].name = Agents[1]
            /\ \A j \in (i + 1)..Len(history) : history[j].name # Agents[1]
            /\ printed[Len(printed)] = Line("content", history[i].content)

\* The content creation agent spoke twice and another agent spoke last: its
\* second message is the final text.
C8_Witness ==
    /\ pc = "done" /\ Len(history) = 5
    /\ history[2].name = Agents[1] /\ history[4].name = Agents[1]
    /\ history[5].name = Agents[2]
    /\ printed[Len(printed)] = Line("content", ResponseText(3))

\* The invocation of the group chat came to its end without raising.
InvokeEndedNormally ==
    \/ pc \in {"collect", "print_header", "print_content", "done"}
    \/ pc = "crashed" /\ uncaught # "AgentChatException"

\* C10: whenever the invocation ends normally, main prints a final text and
\* ends without an uncaught error, also when the history holds no message of
\* the content creation agent.
C10_FinishesAfterInvoke ==
    /\ InvokeEndedNormally => uncaught = ""
    /\ (InvokeEndedNormally /\ ~ENABLED MainNext) =>
           pc = "done" /\ printed[Len(printed)].kind = "content"

====
